---------------------------- MODULE Spec2Model ----------------------------
(***************************************************************************)
(* Project Viewer: the project-discovery and metadata-extraction pipeline  *)
(* (src/lib/github.ts), the gallery page that drives it (src/app/page.tsx) *)
(* and the gallery's client-side filter state (projects-gallery).          *)
(*                                                                         *)
(* JavaScript strings are modelled as sequences of one-character strings,  *)
(* so that includes("/"), toLowerCase(), split(), trim(), the regular      *)
(* expressions and encodeURIComponent are computed, not assumed.           *)
(***************************************************************************)
EXTENDS Integers, Sequences, FiniteSets, TLC

(***************************************************************************)
(* JavaScript values                                                       *)
(***************************************************************************)
\* A string is a sequence of one-character strings.  null, undefined and an
\* opaque string (a download URL) are one-element sequences holding a longer
\* text: no string of characters equals them.
\* null (resolveProjectPath's not-found signal, a missing download_url)
Null == <<"null">>
\* undefined (a property a value does not have)
Undefined == <<"undefined">>
\* An opaque URL
Url(text) == <<text>>

\* the empty string ""
EmptyString == <<>>

UpperLetters ==
    <<"A", "B", "C", "D", "E", "F", "G", "H", "I", "J", "K", "L", "M",
      "N", "O", "P", "Q", "R", "S", "T", "U", "V", "W", "X", "Y", "Z">>
LowerLetters ==
    <<"a", "b", "c", "d", "e", "f", "g", "h", "i", "j", "k", "l", "m",
      "n", "o", "p", "q", "r", "s", "t", "u", "v", "w", "x", "y", "z">>

\* one character of String.prototype.toLowerCase
LowerChar(c) ==
    IF \E i \in 1..Len(UpperLetters) : UpperLetters[i] = c
    THEN LowerLetters[CHOOSE i \in 1..Len(UpperLetters) : UpperLetters[i] = c]
    ELSE c

\* String.prototype.toLowerCase
toLowerCase(s) == [i \in 1..Len(s) |-> LowerChar(s[i])]

\* String.prototype.endsWith
endsWith(s, suffix) ==
    /\ Len(suffix) <= Len(s)
    /\ SubSeq(s, Len(s) - Len(suffix) + 1, Len(s)) = suffix

\* String.prototype.includes
includesString(s, sub) ==
    \E i \in 1..(Len(s) - Len(sub) + 1) : SubSeq(s, i, i + Len(sub) - 1) = sub

\* String.prototype.includes for a one-character needle
includesChar(s, c) == \E i \in 1..Len(s) : s[i] = c

\* White space and line terminators of ECMAScript within the model's alphabet
\* (what \s matches and what trim() strips)
IsWhiteSpace(c) == c \in {" ", "\t", "\n", "\r", "\f"}
\* Line terminators: what "." does not match
IsLineTerminator(c) == c \in {"\n", "\r"}

\* String.prototype.trim
trim(s) ==
    LET keep == {i \in 1..Len(s) : ~IsWhiteSpace(s[i])}
    IN  IF keep = {} THEN EmptyString
        ELSE SubSeq(s, CHOOSE i \in keep : \A j \in keep : i <= j,
                       CHOOSE i \in keep : \A j \in keep : j <= i)

\* String.prototype.split for a one-character separator: the pieces between
\* the separators, in order ("".split(sep) is [""])
RECURSIVE split(_, _)
split(s, sep) ==
    IF ~includesChar(s, sep) THEN <<s>>
    ELSE LET i == CHOOSE k \in 1..Len(s) :
                      s[k] = sep /\ \A j \in 1..(k - 1) : s[j] # sep
         IN  <<SubSeq(s, 1, i - 1)>> \o split(SubSeq(s, i + 1, Len(s)), sep)

\* Array.prototype.join for a one-character separator
RECURSIVE join(_, _)
join(parts, sep) ==
    IF Len(parts) = 0 THEN EmptyString
    ELSE IF Len(parts) = 1 THEN parts[1]
    ELSE parts[1] \o <<sep>> \o join(Tail(parts), sep)

\* The elements of seq at the positions in idx, in order: what
\* Array.prototype.filter and Array.prototype.find keep
SelectAt(seq, idx) ==
    [k \in 1..Cardinality(idx) |->
        seq[CHOOSE i \in idx : Cardinality({j \in idx : j < i}) = k - 1]]

\* Array.prototype.includes
includes(seq, x) == \E i \in 1..Len(seq) : seq[i] = x

(***************************************************************************)
(* Regular expressions (github.ts lines 178 and 236).  A pattern is a      *)
(* sequence of tokens matched by backtracking, as the engine does it:      *)
(*   lit c   the character c, compared case-insensitively (flag i)         *)
(*   opt c   c?      greedy: with the character first, then without        *)
(*   ws      \s*     greedy: the longest run first, then shorter ones      *)
(*   cap     (.+)    greedy, the capturing group                           *)
(***************************************************************************)
NoMatch == [found |-> FALSE, group |-> EmptyString]

\* The number of consecutive white-space characters of s from position i
RECURSIVE WhiteSpaceRun(_, _)
WhiteSpaceRun(s, i) ==
    IF i <= Len(s) /\ IsWhiteSpace(s[i]) THEN 1 + WhiteSpaceRun(s, i + 1) ELSE 0

\* The number of consecutive characters "." matches from position i
RECURSIVE DotRun(_, _)
DotRun(s, i) ==
    IF i <= Len(s) /\ ~IsLineTerminator(s[i]) THEN 1 + DotRun(s, i + 1) ELSE 0

RECURSIVE RegexMatchFrom(_, _, _, _)
RECURSIVE RegexTryRun(_, _, _, _, _, _)

\* A greedy quantifier that may take j characters from i: j first, then
\* fewer down to least, the first that lets the rest of the pattern match
RegexTryRun(s, i, pat, k, j, least) ==
    IF j < least THEN NoMatch
    ELSE LET r == RegexMatchFrom(s, i + j, pat, k + 1)
         IN  IF r.found
             THEN (IF pat[k].t = "cap"
                   THEN [found |-> TRUE, group |-> SubSeq(s, i, i + j - 1)]
                   ELSE r)
             ELSE RegexTryRun(s, i, pat, k, j - 1, least)

\* Token k of pat onward matches s from position i
RegexMatchFrom(s, i, pat, k) ==
    IF k > Len(pat) THEN [found |-> TRUE, group |-> EmptyString]
    ELSE CASE pat[k].t = "lit" ->
                IF i <= Len(s) /\ LowerChar(s[i]) = LowerChar(pat[k].c)
                THEN RegexMatchFrom(s, i + 1, pat, k + 1)
                ELSE NoMatch
           [] pat[k].t = "opt" ->
                IF i <= Len(s) /\ LowerChar(s[i]) = LowerChar(pat[k].c)
                THEN LET r == RegexMatchFrom(s, i + 1, pat, k + 1)
                     IN  IF r.found THEN r ELSE RegexMatchFrom(s, i, pat, k + 1)
                ELSE RegexMatchFrom(s, i, pat, k + 1)
           [] pat[k].t = "ws" ->
                RegexTryRun(s, i, pat, k, WhiteSpaceRun(s, i), 0)
           [] pat[k].t = "cap" ->
                RegexTryRun(s, i, pat, k, DotRun(s, i), 1)

\* String.prototype.match without the g flag: the leftmost match
match(s, pat) ==
    LET starts == {i \in 1..(Len(s) + 1) : RegexMatchFrom(s, i, pat, 1).found}
    IN  IF starts = {} THEN NoMatch
        ELSE RegexMatchFrom(s, CHOOSE i \in starts : \A j \in starts : i <= j, pat, 1)

Lit(str) == [i \in 1..Len(str) |-> [t |-> "lit", c |-> str[i]]]
Opt(ch) == <<[t |-> "opt", c |-> ch]>>
WsStar == <<[t |-> "ws", c |-> " "]>>
CapPlus == <<[t |-> "cap", c |-> " "]>>

\* /\*\*Project?\s*Description?:\*\*\s*(.+)/i
DESCRIPTION_RE ==
    Lit(<<"*", "*", "P", "r", "o", "j", "e", "c">>) \o Opt("t") \o WsStar
    \o Lit(<<"D", "e", "s", "c", "r", "i", "p", "t", "i", "o">>) \o Opt("n")
    \o Lit(<<":", "*", "*">>) \o WsStar \o CapPlus

\* /\*\*Languages?\s*&\s*Technologies?:\*\*\s*(.+)/i
TAGS_RE ==
    Lit(<<"*", "*", "L", "a", "n", "g", "u", "a", "g", "e">>) \o Opt("s") \o WsStar
    \o Lit(<<"&">>) \o WsStar
    \o Lit(<<"T", "e", "c", "h", "n", "o", "l", "o", "g", "i", "e">>) \o Opt("s")
    \o Lit(<<":", "*", "*">>) \o WsStar \o CapPlus

(***************************************************************************)
(* Parsing the Markdown text                                               *)
(***************************************************************************)
\* extractDescriptionFromProject, from the text of the file on: line 3
ParseDescription(content) ==
    LET lines == split(content, "\n")
    IN  IF Len(lines) >= 3
        THEN LET m == match(lines[3], DESCRIPTION_RE)
             IN  IF m.found THEN m.group ELSE EmptyString
        ELSE EmptyString

\* extractTagsFromProject, from the text of the file on: line 5, split by
\* comma, each tag trimmed, the empty ones dropped
ParseTags(content) ==
    LET lines == split(content, "\n")
    IN  IF Len(lines) >= 5
        THEN LET m == match(lines[5], TAGS_RE)
             IN  IF m.found
                 THEN LET parts == split(m.group, ",")
                          trimmed == [i \in 1..Len(parts) |-> trim(parts[i])]
                      IN  SelectAt(trimmed, {i \in 1..Len(trimmed) : Len(trimmed[i]) > 0})
                 ELSE <<>>
        ELSE <<>>

(***************************************************************************)
(* Paths and URLs                                                          *)
(***************************************************************************)
\* const STATUS_DIRS = ["Completed", "In Progress", "Incomplete"]
STATUS_Completed == <<"C", "o", "m", "p", "l", "e", "t", "e", "d">>
STATUS_InProgress == <<"I", "n", " ", "P", "r", "o", "g", "r", "e", "s", "s">>
STATUS_Incomplete == <<"I", "n", "c", "o", "m", "p", "l", "e", "t", "e">>
STATUS_DIRS == <<STATUS_Completed, STATUS_InProgress, STATUS_Incomplete>>

\* "Uncategorized"
UNCATEGORIZED == <<"U", "n", "c", "a", "t", "e", "g", "o", "r", "i", "z", "e", "d">>

\* "https://api.github.com/repos/rileybarshak/projects/contents"
API_CONTENTS == "https://api.github.com/repos/rileybarshak/projects/contents"

\* pathHasSlash finding no separator
pathHasSlashNever(nameOrPath) == FALSE

\* nameOrPath.includes("/")
pathHasSlash(nameOrPath) == includesChar(nameOrPath, "/")

\* `${a}/${b}`
SlashJoin(a, b) == a \o <<"/">> \o b

\* The characters of the model's alphabet that encodeURIComponent escapes
\* (every character but letters, digits and - _ . ! ~ * ' ( ) is escaped)
PercentEscapes ==
    [c \in {" ", "/", "%", "&", "#", "?", ",", ":"} |->
        CASE c = " " -> <<"%", "2", "0">>
          [] c = "/" -> <<"%", "2", "F">>
          [] c = "%" -> <<"%", "2", "5">>
          [] c = "&" -> <<"%", "2", "6">>
          [] c = "#" -> <<"%", "2", "3">>
          [] c = "?" -> <<"%", "3", "F">>
          [] c = "," -> <<"%", "2", "C">>
          [] c = ":" -> <<"%", "3", "A">>]

RECURSIVE encodeURIComponent(_)
encodeURIComponent(s) ==
    IF Len(s) = 0 THEN EmptyString
    ELSE (IF s[1] \in DOMAIN PercentEscapes THEN PercentEscapes[s[1]] ELSE <<s[1]>>)
         \o encodeURIComponent(Tail(s))

\* path.split("/").map((seg) => encodeURIComponent(seg)).join("/")
encodePath(path) ==
    LET segs == split(path, "/")
    IN  join([i \in 1..Len(segs) |-> encodeURIComponent(segs[i])], "/")

\* A request: the URL fetch() is called with, as the part before and the part
\* after ".../contents"; op names the call site; outcome is how it was answered
ContentsRequest(op, suffix) ==
    [op |-> op, base |-> API_CONTENTS, path |-> suffix, outcome |-> "pending"]
RawRequest(url) ==
    [op |-> "raw", base |-> url[1], path |-> EmptyString, outcome |-> "pending"]

(***************************************************************************)
(* The remote repository behind the API: what a listing or a raw file      *)
(* request answers when it succeeds.                                       *)
(***************************************************************************)
\* The server's reading of a URL path: percent-decoding
RECURSIVE decodeURIComponent(_)
decodeURIComponent(s) ==
    IF Len(s) = 0 THEN EmptyString
    ELSE IF s[1] = "%" /\ Len(s) >= 3
              /\ \E c \in DOMAIN PercentEscapes : PercentEscapes[c] = SubSeq(s, 1, 3)
         THEN <<CHOOSE c \in DOMAIN PercentEscapes : PercentEscapes[c] = SubSeq(s, 1, 3)>>
              \o decodeURIComponent(SubSeq(s, 4, Len(s)))
         ELSE <<s[1]>> \o decodeURIComponent(Tail(s))

\* The repository path a contents URL names: the decoded segments after
\* ".../contents", empty ones (a trailing slash) dropped
ServerPath(suffix) ==
    LET segs == split(suffix, "/")
        real == SelectAt(segs, {i \in 1..Len(segs) : Len(segs[i]) > 0})
    IN  join([i \in 1..Len(real) |-> decodeURIComponent(real[i])], "/")

N_Notes == <<"N", "o", "t", "e", "s">>
N_Demo == <<"D", "e", "m", "o">>
N_Linked == <<"L", "i", "n", "k", "e", "d">>
N_Wip == <<"W", "i", "p">>
F_Readme == <<"R", "E", "A", "D", "M", "E", ".", "m", "d">>
F_ReadmeUpper == <<"R", "E", "A", "D", "M", "E", ".", "M", "D">>
F_Cover == <<"c", "o", "v", "e", "r", ".", "p", "n", "g">>
F_NotesTxt == <<"n", "o", "t", "e", "s", ".", "t", "x", "t">>
F_Todo == <<"t", "o", "d", "o", ".", "m", "d">>
F_Draft == <<"d", "r", "a", "f", "t", ".", "m", "d">>
F_Link == <<"l", "i", "n", "k", ".", "m", "d">>
F_NotesMd == <<"n", "o", "t", "e", "s", ".", "m", "d">>
F_DemoMd == <<"d", "e", "m", "o", ".", "m", "d">>

N_Old == <<"O", "l", "d">>
N_Archive == <<"A", "r", "c", "h", "i", "v", "e">>
F_Old == <<"o", "l", "d", ".", "m", "d">>

\* Lines of the Markdown files
\* "# Demo"
LINE_Title == <<"#", " ", "D", "e", "m", "o">>
\* "**Project Description:** A test app"
LINE_Desc == <<"*", "*", "P", "r", "o", "j", "e", "c", "t", " ", "D", "e", "s", "c", "r", "i",
    "p", "t", "i", "o", "n", ":", "*", "*", " ", "A", " ", "t", "e", "s", "t", " ", "a", "p",
    "p">>
\* "**Languages & Technologies:** Go, Rust"
LINE_Tags == <<"*", "*", "L", "a", "n", "g", "u", "a", "g", "e", "s", " ", "&", " ", "T", "e",
    "c", "h", "n", "o", "l", "o", "g", "i", "e", "s", ":", "*", "*", " ", "G", "o", ",", " ",
    "R", "u", "s", "t">>
\* "[Demo](https://example.com)"
LINE_Link == <<"[", "D", "e", "m", "o", "]", "(", "h", "t", "t", "p", "s", ":", "/", "/", "e",
    "x", "a", "m", "p", "l", "e", ".", "c", "o", "m", ")">>
\* "> **Project Type:** Personal project"
LINE_Type == <<">", " ", "*", "*", "P", "r", "o", "j", "e", "c", "t", " ", "T", "y", "p", "e",
    ":", "*", "*", " ", "P", "e", "r", "s", "o", "n", "a", "l", " ", "p", "r", "o", "j", "e",
    "c", "t">>
\* "> **Project Description:** Quick blurb  "   (two trailing blanks)
LINE_QuotedDesc == <<">", " ", "*", "*", "P", "r", "o", "j", "e", "c", "t", " ", "D", "e", "s",
    "c", "r", "i", "p", "t", "i", "o", "n", ":", "*", "*", " ", "Q", "u", "i", "c", "k", " ",
    "b", "l", "u", "r", "b", " ", " ">>
\* "> **Project Goal:** Goal"
LINE_Goal == <<">", " ", "*", "*", "P", "r", "o", "j", "e", "c", "t", " ", "G", "o", "a", "l",
    ":", "*", "*", " ", "G", "o", "a", "l">>
\* "> **language&technologie:**  TypeScript, , next.js ,"
LINE_QuotedTags == <<">", " ", "*", "*", "l", "a", "n", "g", "u", "a", "g", "e", "&", "t", "e",
    "c", "h", "n", "o", "l", "o", "g", "i", "e", ":", "*", "*", " ", " ", "T", "y", "p", "e",
    "S", "c", "r", "i", "p", "t", ",", " ", ",", " ", "n", "e", "x", "t", ".", "j", "s", " ",
    ",">>
\* "**project  descriptio:**  Spaced \r"   (a CRLF file's line)
LINE_DescCR == <<"*", "*", "p", "r", "o", "j", "e", "c", "t", " ", " ", "d", "e", "s", "c",
    "r", "i", "p", "t", "i", "o", ":", "*", "*", " ", " ", "S", "p", "a", "c", "e", "d", " ",
    "\r">>
\* "hello"
LINE_Hello == <<"h", "e", "l", "l", "o">>

\* The example of spec section 8: title, blank, description, blank, tags
DOC_Example == join(<<LINE_Title, EmptyString, LINE_Desc, EmptyString, LINE_Tags>>, "\n")
\* Line 1 is a link; the other lines follow the README's quoted template
DOC_Linked ==
    join(<<LINE_Link, LINE_Type, LINE_QuotedDesc, LINE_Goal, LINE_QuotedTags>>, "\n")
\* Four lines: a description line, no line 5
DOC_FourLines == join(<<LINE_Title, EmptyString, LINE_DescCR, LINE_Tags>>, "\n")
\* Five lines, none with the labels at lines 3 and 5
DOC_NoLabels == join(<<LINE_Title, LINE_Desc, LINE_Type, LINE_Tags, LINE_Goal>>, "\n")
\* Two lines
DOC_TwoLines == join(<<LINE_Title, LINE_Hello>>, "\n")

\* The raw files, by download_url
RawFiles ==
    [u \in {"raw/Completed/Demo/README.MD", "raw/Completed/Demo/todo.md",
            "raw/Completed/Linked/link.md", "raw/Notes/notes.md", "raw/Demo/demo.md",
            "raw/Old/old.md"} |->
        CASE u = "raw/Completed/Demo/README.MD" -> DOC_Example
          [] u = "raw/Completed/Demo/todo.md" -> DOC_TwoLines
          [] u = "raw/Completed/Linked/link.md" -> DOC_Linked
          [] u = "raw/Notes/notes.md" -> DOC_FourLines
          [] u = "raw/Demo/demo.md" -> DOC_NoLabels
          [] u = "raw/Old/old.md" -> DOC_TwoLines]

\* One entry of a listing: { name, type, download_url }
Dir(name) == [name |-> name, type |-> "dir", download_url |-> Null]
File(name, url) == [name |-> name, type |-> "file", download_url |-> url]

\* The root listings the model starts from
RemoteRoots == {"buckets", "legacy", "emptyBuckets", "onlyBuckets", "single", "empty"}

RootListing(r) ==
    CASE r = "buckets" ->
           <<Dir(STATUS_Completed), Dir(STATUS_InProgress), Dir(N_Notes),
             File(F_Readme, Url("raw/README.md"))>>
      [] r = "legacy" ->
           \* no status folder: "Completed" is a file here
           <<File(STATUS_Completed, Url("raw/Completed")), Dir(N_Demo), Dir(N_Notes)>>
      [] r = "emptyBuckets" ->
           <<Dir(STATUS_Incomplete), Dir(N_Notes)>>
      [] r = "onlyBuckets" ->
           <<Dir(STATUS_Incomplete)>>
      [] r = "single" ->
           <<Dir(N_Old)>>
      [] r = "empty" -> <<>>

\* The folders below the root, by path
RemoteFolders ==
    (STATUS_Completed :> <<Dir(N_Demo), File(F_NotesTxt, Url("raw/Completed/notes.txt")),
                           Dir(N_Linked)>>)
    @@ (STATUS_InProgress :> <<Dir(N_Wip)>>)
    @@ (STATUS_Incomplete :> <<File(F_Todo, Url("raw/Incomplete/todo.md"))>>)
    @@ (N_Notes :> <<Dir(N_Archive), File(F_NotesMd, Url("raw/Notes/notes.md"))>>)
    @@ (N_Old :> <<File(F_Old, Url("raw/Old/old.md"))>>)
    @@ (N_Demo :> <<File(F_DemoMd, Url("raw/Demo/demo.md"))>>)
    @@ (SlashJoin(N_Notes, N_Archive) :> <<>>)
    @@ (SlashJoin(STATUS_Completed, N_Demo) :>
            <<File(F_Cover, Url("raw/Completed/Demo/cover.png")),
              File(F_ReadmeUpper, Url("raw/Completed/Demo/README.MD")),
              File(F_Todo, Url("raw/Completed/Demo/todo.md"))>>)
    @@ (SlashJoin(STATUS_Completed, N_Linked) :>
            <<File(F_Link, Url("raw/Completed/Linked/link.md"))>>)
    @@ (SlashJoin(STATUS_InProgress, N_Wip) :>
            <<File(F_Draft, Null), File(F_Cover, Url("raw/In Progress/Wip/cover.png"))>>)

\* The first segment of a path
FirstSegment(path) == split(path, "/")[1]

\* The folder at path exists in the repository whose root listing is r
FolderExists(r, path) ==
    \/ path = EmptyString
    \/ /\ path \in DOMAIN RemoteFolders
       /\ \E i \in 1..Len(RootListing(r)) :
              /\ RootListing(r)[i].type = "dir"
              /\ RootListing(r)[i].name = FirstSegment(path)

\* The listing of an existing folder
FolderListing(r, path) ==
    IF path = EmptyString THEN RootListing(r) ELSE RemoteFolders[path]

(***************************************************************************)
(* State                                                                   *)
(***************************************************************************)
VARIABLES
    remote,     \* which root listing the remote repository has
    tasks,      \* the calls of resolveProjectPath, extract*FromProject, getProjectFiles
    gp,         \* the call of getProjects
    home,       \* the render of the gallery page (Home)
    gallery,    \* the state of the ProjectsGallery component
    config      \* the settings file and the module state of src/lib/config.ts

vars == <<remote, tasks, gp, home, gallery, config>>

(***************************************************************************)
(* fetch(): what a pending request may be answered with                    *)
(*   ok       a success status and a well-formed body                      *)
(*   http     a non-success status (response.ok is false)                  *)
(*   network  fetch() rejects                                              *)
(*   body     a success status, but reading the body throws                *)
(* Every call keeps the requests it issued, in order, in its trace; the    *)
(* last one is the one it awaits.                                          *)
(***************************************************************************)
RequestFound(r, req) ==
    IF req.base = API_CONTENTS
    THEN FolderExists(r, ServerPath(req.path))
    ELSE req.base \in DOMAIN RawFiles

Outcomes(r, req) ==
    IF RequestFound(r, req) THEN {"ok", "http", "network", "body"} ELSE {"http", "network"}

\* response.ok
ResponseOk(oc) == oc \in {"ok", "body"}

\* await response.json() of a listing request that succeeded
ResponseJson(r, req) == FolderListing(r, ServerPath(req.path))

\* await contentResponse.text()
ResponseText(req) == RawFiles[req.base]

\* The request a call awaits
Pending(c) == c.trace[Len(c.trace)]

\* The call's trace with the awaited request answered by oc
Answer(c, oc) == [c EXCEPT !.trace[Len(c.trace)].outcome = oc]

\* The call issues one more request
Issue(c, req) == [c EXCEPT !.trace = Append(c.trace, req)]

(***************************************************************************)
(* resolveProjectPath, extractDescriptionFromProject,                      *)
(* extractTagsFromProject, getProjectFiles: one task per call.  A task     *)
(* runs from one await of fetch() to the next in one step.  exit is the    *)
(* statement it left by: "return" (the value it computed), "guard" (one of *)
(* the early returns of the empty default), "catch", "throw".              *)
(***************************************************************************)
Fulfilled(t, exit, v) ==
    [t EXCEPT !.pc = "done", !.settled = "fulfilled", !.exit = exit, !.value = v]
Rejected(t) ==
    [t EXCEPT !.pc = "done", !.settled = "rejected", !.exit = "throw", !.value = Undefined]

\* What a call returns where it returns its empty default: "" or []
EmptyDefault(fn) == IF fn = "extractDescriptionFromProject" THEN EmptyString ELSE <<>>

\* if (...) return "" / []
TaskGuard(t) == Fulfilled(t, "guard", EmptyDefault(t.fn))

\* TaskCatch rethrowing the error
TaskRethrow(t) == Rejected(t)

\* catch (error) { console.error(...); return "" / [] }
TaskCatch(t) == Fulfilled(t, "catch", EmptyDefault(t.fn))

\* ProbePath going through STATUS_DIRS from its end
ProbePathReversed(nameOrPath, k) ==
    IF k = 0 THEN nameOrPath
    ELSE SlashJoin(STATUS_DIRS[Len(STATUS_DIRS) + 1 - k], nameOrPath)

\* The path probe k asks for: the bare name, then `${status}/${nameOrPath}`
ProbePath(nameOrPath, k) ==
    IF k = 0 THEN nameOrPath ELSE SlashJoin(STATUS_DIRS[k], nameOrPath)

ProbeRequest(nameOrPath, k) ==
    ContentsRequest("probe", <<"/">> \o encodePath(ProbePath(nameOrPath, k)))

\* files.find((file) => file.name.toLowerCase().endsWith(".md") && file.download_url)
\* (the matching entries in listing order: find returns the first, or undefined)
FindMarkdownFile(files) ==
    SelectAt(files, {i \in 1..Len(files) :
                        /\ endsWith(toLowerCase(files[i].name), <<".", "m", "d">>)
                        /\ files[i].download_url # Null})

\* The caller's code after `await resolveProjectPath(projectName)` gave path
AfterResolve(t, path) ==
    LET t1 == [t EXCEPT !.resolved = "returned", !.projectPath = path]
    IN  IF t.fn = "resolveProjectPath" THEN Fulfilled(t1, "return", path)
        ELSE IF path = Null \/ path = EmptyString
        THEN \* if (!projectPath) return "" / []
             TaskGuard(t1)
        ELSE Issue([t1 EXCEPT !.pc = "list"],
                   ContentsRequest("list", <<"/">> \o encodePath(path)))

\* resolveProjectPath rejected: it has no try/catch of its own, its callers do
AfterResolveRejected(t) ==
    LET t1 == [t EXCEPT !.resolved = "rejected"]
    IN  IF t.fn = "resolveProjectPath" THEN Rejected(t1) ELSE TaskCatch(t1)

\* The call fn(projectName) up to its first await of fetch()
StartTask(fn, projectName) ==
    LET t == [fn |-> fn, projectName |-> projectName, pc |-> "probe", probe |-> 0,
              trace |-> <<>>, resolved |-> "pending", projectPath |-> Null,
              settled |-> "pending", exit |-> "pending", value |-> Undefined,
              consumed |-> FALSE]
    IN  IF pathHasSlash(projectName)
        THEN AfterResolve(t, projectName)
        ELSE Issue(t, ProbeRequest(projectName, 0))

\* Task t0 gets the answer oc to the request it awaits
TaskStep(r, t0, oc) ==
    LET req == Pending(t0)
        t == Answer(t0, oc)
    IN  CASE t.pc = "probe" ->
               IF oc = "network" THEN AfterResolveRejected(t)
               ELSE IF ResponseOk(oc) THEN AfterResolve(t, ProbePath(t.projectName, t.probe))
               ELSE IF t.probe < Len(STATUS_DIRS)
               THEN Issue([t EXCEPT !.probe = t.probe + 1],
                          ProbeRequest(t.projectName, t.probe + 1))
               ELSE AfterResolve(t, Null)
          [] t.pc = "list" ->
               IF oc \in {"network", "body"} THEN TaskCatch(t)
               ELSE IF ~ResponseOk(oc) THEN TaskGuard(t)
               ELSE IF t.fn = "getProjectFiles"
               THEN Fulfilled(t, "return", ResponseJson(r, req))
               ELSE LET found == FindMarkdownFile(ResponseJson(r, req))
                    IN  IF Len(found) = 0
                        THEN \* if (!markdownFile || !markdownFile.download_url)
                             TaskGuard(t)
                        ELSE Issue([t EXCEPT !.pc = "content"],
                                   RawRequest(found[1].download_url))
          [] t.pc = "content" ->
               IF oc \in {"network", "body"} THEN TaskCatch(t)
               ELSE IF ~ResponseOk(oc) THEN TaskGuard(t)
               ELSE IF t.fn = "extractDescriptionFromProject"
               THEN Fulfilled(t, "return", ParseDescription(ResponseText(req)))
               ELSE Fulfilled(t, "return", ParseTags(ResponseText(req)))

\* The request a task awaits is answered
TaskRespond ==
    /\ \E id \in 1..Len(tasks) :
          /\ tasks[id].settled = "pending"
          /\ \E oc \in Outcomes(remote, Pending(tasks[id])) :
                tasks' = [tasks EXCEPT ![id] = TaskStep(remote, tasks[id], oc)]
    /\ UNCHANGED <<config, remote, gp, home, gallery>>

\* Once the caller has taken a call's value the call's frame is gone: which
\* call it was, how it ended and what it returned stay, its locals do not
Consume(t) ==
    [t EXCEPT !.consumed = TRUE, !.trace = <<>>, !.probe = 0, !.resolved = "pending",
              !.projectPath = Null]

ConsumeAll(ts, ids) ==
    [id \in 1..Len(ts) |-> IF includes(ids, id) THEN Consume(ts[id]) ELSE ts[id]]

(***************************************************************************)
(* getProjects                                                             *)
(***************************************************************************)
\* data.filter((item) => item.type === "dir")
Directories(data) == SelectAt(data, {i \in 1..Len(data) : data[i].type = "dir"})

\* directories.filter((dir) => STATUS_DIRS.includes(dir.name))
StatusRoots(directories) ==
    SelectAt(directories,
             {i \in 1..Len(directories) : includes(STATUS_DIRS, directories[i].name)})

\* NonStatusDirs without its filter
AllDirs(directories) == directories

\* directories.filter((dir) => !STATUS_DIRS.includes(dir.name))
NonStatusDirs(directories) ==
    SelectAt(directories,
             {i \in 1..Len(directories) : ~includes(STATUS_DIRS, directories[i].name)})

\* RootProject with the status of a grouped project
RootProjectCompleted(dir, tags) ==
    [name |-> dir.name, path |-> dir.name, type |-> dir.type, tags |-> tags,
     status |-> STATUS_Completed]

\* A root folder taken as a project (both fallbacks)
RootProject(dir, tags) ==
    [name |-> dir.name, path |-> dir.name, type |-> dir.type, tags |-> tags,
     status |-> UNCATEGORIZED]

\* StatusProject with the path left without its status folder
StatusProjectFlat(statusName, sub, tags) ==
    [name |-> sub.name, path |-> sub.name, type |-> sub.type, tags |-> tags,
     status |-> statusName]

\* A subfolder of a status folder taken as a project
StatusProject(statusName, sub, tags) ==
    [name |-> sub.name, path |-> SlashJoin(statusName, sub.name), type |-> sub.type,
     tags |-> tags, status |-> statusName]

GetProjectsReturn(g, v) == [g EXCEPT !.pc = "done", !.settled = "fulfilled", !.value = v]
GetProjectsReject(g) == [g EXCEPT !.pc = "done", !.settled = "rejected", !.value = Undefined]

\* getProjectsCatch rethrowing the error
getProjectsRethrow(g) == GetProjectsReject([g EXCEPT !.caught = TRUE])

\* catch (error) { console.error(...); return [] }
getProjectsCatch(g) == GetProjectsReturn([g EXCEPT !.caught = TRUE], <<>>)

\* The calls fn(names[1]), fn(names[2]), ... of one map(), each run to its
\* first await of fetch(), appended to the tasks ts
SpawnAll(fn, names, ts) == ts \o [k \in 1..Len(names) |-> StartTask(fn, names[k])]

\* The numbers of the n tasks appended to ts
SpawnedIds(ts, n) == [k \in 1..n |-> Len(ts) + k]

\* Promise.any in the place of Promise.all: one fulfilled call is enough
PromiseAnyFulfilled(ts, ids) == \E k \in 1..Len(ids) : ts[ids[k]].settled = "fulfilled"

\* The page's Promise.all over the calls ids is fulfilled: every one of them is
PromiseAllFulfilled(ts, ids) == \A k \in 1..Len(ids) : ts[ids[k]].settled = "fulfilled"

\* return Promise.all(dirs.map(async (dir) => { tags = await extractTagsFromProject(dir.name) ... }))
FallbackAll(g, dirs, ts) ==
    IF Len(dirs) = 0
    THEN [gp |-> GetProjectsReturn(g, <<>>), tasks |-> ts]
    ELSE [gp |-> [g EXCEPT !.pc = "all", !.fallback = dirs,
                           !.awaiting = SpawnedIds(ts, Len(dirs))],
          tasks |-> SpawnAll("extractTagsFromProject",
                             [k \in 1..Len(dirs) |-> dirs[k].name], ts)]

\* tags = await extractTagsFromProject(path) for subfolder g.j of the status folder g.i
CallExtractTags(g, ts) ==
    [gp |-> [g EXCEPT !.pc = "tags", !.awaiting = SpawnedIds(ts, 1)],
     tasks |-> SpawnAll("extractTagsFromProject",
                        <<SlashJoin(g.statusRoots[g.i].name, g.subDirs[g.j].name)>>, ts)]

\* The status listing handled as the root listing is: if (!subResp.ok) throw
StatusListingThrowsUnlessOk(oc) == oc # "ok"

\* The await of a status folder's listing throws into the catch: fetch
\* rejects, or the body does not parse.  A non-success status does not.
StatusListingThrows(oc) == oc \in {"network", "body"}

\* The head of `for (const statusDir of statusRoots)` at index g.i, and the
\* code after the loop
AdvanceStatus(g, ts) ==
    IF g.i <= Len(g.statusRoots)
    THEN [gp |-> Issue([g EXCEPT !.pc = "status"],
                       ContentsRequest("status",
                           <<"/">> \o encodeURIComponent(g.statusRoots[g.i].name))),
          tasks |-> ts]
    ELSE IF Len(g.projectsWithTags) = 0 /\ Len(NonStatusDirs(g.directories)) > 0
    THEN FallbackAll(g, NonStatusDirs(g.directories), ts)
    ELSE [gp |-> GetProjectsReturn(g, g.projectsWithTags), tasks |-> ts]

\* The root listing is answered
GetProjectsRoot ==
    /\ gp.pc = "root"
    /\ \E oc \in Outcomes(remote, Pending(gp)) :
          LET g0 == Answer(gp, oc)
              directories == Directories(ResponseJson(remote, Pending(gp)))
              g == [g0 EXCEPT !.directories = directories,
                              !.statusRoots = StatusRoots(directories), !.i = 1]
              s == IF oc # "ok"
                   THEN \* fetch rejects, !response.ok throws, the body does not parse
                        [gp |-> getProjectsCatch(g0), tasks |-> tasks]
                   ELSE IF Len(g.statusRoots) = 0
                   THEN FallbackAll(g, directories, tasks)
                   ELSE AdvanceStatus(g, tasks)
          IN  /\ gp' = s.gp
              /\ tasks' = s.tasks
    /\ UNCHANGED <<config, remote, home, gallery>>

\* The listing of a status folder is answered
GetProjectsStatus ==
    /\ gp.pc = "status"
    /\ \E oc \in Outcomes(remote, Pending(gp)) :
          LET g0 == Answer(gp, oc)
              subDirs == Directories(ResponseJson(remote, Pending(gp)))
              s == IF StatusListingThrows(oc)
                   THEN [gp |-> getProjectsCatch(g0), tasks |-> tasks]
                   ELSE IF ~ResponseOk(oc) \/ Len(subDirs) = 0
                   THEN \* if (!subResp.ok) continue; or no subfolder to loop over
                        AdvanceStatus([g0 EXCEPT !.i = gp.i + 1], tasks)
                   ELSE CallExtractTags([g0 EXCEPT !.subDirs = subDirs, !.j = 1], tasks)
          IN  /\ gp' = s.gp
              /\ tasks' = s.tasks
    /\ UNCHANGED <<config, remote, home, gallery>>

\* extractTagsFromProject(path) has settled: push the project, go on
GetProjectsTags ==
    /\ gp.pc = "tags"
    /\ tasks[gp.awaiting[1]].settled # "pending"
    /\ LET t == tasks[gp.awaiting[1]]
           ts == ConsumeAll(tasks, gp.awaiting)
           g == [gp EXCEPT !.projectsWithTags =
                    Append(gp.projectsWithTags,
                           StatusProject(gp.statusRoots[gp.i].name, gp.subDirs[gp.j], t.value))]
           s == IF t.settled = "rejected"
                THEN [gp |-> getProjectsCatch(gp), tasks |-> ts]
                ELSE IF gp.j < Len(gp.subDirs)
                THEN CallExtractTags([g EXCEPT !.j = gp.j + 1], ts)
                ELSE AdvanceStatus([g EXCEPT !.i = gp.i + 1], ts)
       IN  /\ gp' = s.gp
           /\ tasks' = s.tasks
    /\ UNCHANGED <<config, remote, home, gallery>>

\* Promise.all of a fallback settles: fulfilled when every call is, rejected as
\* soon as one is (the promise is returned, not awaited: the catch does not see it)
GetProjectsAll ==
    /\ gp.pc = "all"
    /\ LET ids == gp.awaiting
       IN  IF \E k \in 1..Len(ids) : tasks[ids[k]].settled = "rejected"
           THEN gp' = GetProjectsReject(gp)
           ELSE /\ \A k \in 1..Len(ids) : tasks[ids[k]].settled = "fulfilled"
                /\ gp' = GetProjectsReturn(gp,
                      [k \in 1..Len(ids) |-> RootProject(gp.fallback[k], tasks[ids[k]].value)])
    /\ tasks' = ConsumeAll(tasks, gp.awaiting)
    /\ UNCHANGED <<config, remote, home, gallery>>

(***************************************************************************)
(* Configuration (src/lib/config.ts).  An object is the sequence of its    *)
(* entries [key, value] in insertion order.  A cache variable is the empty *)
(* sequence while it is null and the one-element sequence of its value     *)
(* after.                                                                  *)
(***************************************************************************)
\* "bg-muted text-muted-foreground"
CLASS_Muted == <<"b", "g", "-", "m", "u", "t", "e", "d", " ", "t", "e", "x", "t", "-", "m",
    "u", "t", "e", "d", "-", "f", "o", "r", "e", "g", "r", "o", "u", "n", "d">>
\* "bg-green-100 text-green-700"
CLASS_Green == <<"b", "g", "-", "g", "r", "e", "e", "n", "-", "1", "0", "0", " ", "t", "e",
    "x", "t", "-", "g", "r", "e", "e", "n", "-", "7", "0", "0">>
\* "bg-amber-100 text-amber-700"
CLASS_Amber == <<"b", "g", "-", "a", "m", "b", "e", "r", "-", "1", "0", "0", " ", "t", "e",
    "x", "t", "-", "a", "m", "b", "e", "r", "-", "7", "0", "0">>
\* "bg-red-100 text-red-700"
CLASS_Red == <<"b", "g", "-", "r", "e", "d", "-", "1", "0", "0", " ", "t", "e", "x", "t", "-",
    "r", "e", "d", "-", "7", "0", "0">>
\* "completed"
KEY_completed == <<"c", "o", "m", "p", "l", "e", "t", "e", "d">>
\* "in progress"
KEY_inProgress == <<"i", "n", " ", "p", "r", "o", "g", "r", "e", "s", "s">>
\* "incomplete"
KEY_incomplete == <<"i", "n", "c", "o", "m", "p", "l", "e", "t", "e">>
\* "uncategorized"
KEY_uncategorized == <<"u", "n", "c", "a", "t", "e", "g", "o", "r", "i", "z", "e", "d">>
\* " riley "
USER_Riley == <<" ", "r", "i", "l", "e", "y", " ">>
\* "  "
USER_Blank == <<" ", " ">>
\* "languages"
KEY_Languages == <<"l", "a", "n", "g", "u", "a", "g", "e", "s">>
\* "tools"
KEY_Tools == <<"t", "o", "o", "l", "s">>
\* " bg-blue-100 "
CLASS_Blue == <<" ", "b", "g", "-", "b", "l", "u", "e", "-", "1", "0", "0", " ">>
\* "bg-pink-100"
CLASS_Pink == <<"b", "g", "-", "p", "i", "n", "k", "-", "1", "0", "0">>
\* " Go "
TAG_GoPadded == <<" ", "G", "o", " ">>
\* "rust"
TAG_rust == <<"r", "u", "s", "t">>
\* " Completed "
KEY_CompletedPadded == <<" ", "C", "o", "m", "p", "l", "e", "t", "e", "d", " ">>
\* "Archived"
KEY_Archived == <<"A", "r", "c", "h", "i", "v", "e", "d">>

EmptyObject == <<>>

\* obj[key], undefined when obj has no such key
ObjectGet(obj, key) ==
    IF \E i \in 1..Len(obj) : obj[i].key = key
    THEN obj[CHOOSE i \in 1..Len(obj) : obj[i].key = key].value
    ELSE Undefined

\* obj[key] = value: an existing key keeps its place, a new one goes last
ObjectSet(obj, key, value) ==
    IF \E i \in 1..Len(obj) : obj[i].key = key
    THEN [i \in 1..Len(obj) |-> IF obj[i].key = key THEN [key |-> key, value |-> value]
                                ELSE obj[i]]
    ELSE Append(obj, [key |-> key, value |-> value])

\* { ...a, ...b }
RECURSIVE ObjectSpread(_, _)
ObjectSpread(a, b) ==
    IF Len(b) = 0 THEN a
    ELSE ObjectSpread(ObjectSet(a, b[1].key, b[1].value), Tail(b))

\* const defaultStatusFolderClasses
defaultStatusFolderClasses ==
    <<[key |-> KEY_completed, value |-> CLASS_Green],
      [key |-> KEY_inProgress, value |-> CLASS_Amber],
      [key |-> KEY_incomplete, value |-> CLASS_Red],
      [key |-> KEY_uncategorized, value |-> CLASS_Muted]>>

\* What parse(fileContents) gives: undefined (an empty file), a scalar, an
\* object; "invalid" is a text parse() throws on.  A value of tagCategories is
\* an object with classes (a text or undefined) and tags (an array of texts,
\* or something that is not an array), or not an object; a value of
\* statusStyles is an object with folderClasses, or not an object.
ParsedYaml(kind, githubUser, tagCategories, statusStyles) ==
    [kind |-> kind, githubUser |-> githubUser, tagCategories |-> tagCategories,
     statusStyles |-> statusStyles]
Category(classes, tagsIsArray, tags) ==
    [isObject |-> TRUE, classes |-> classes, tagsIsArray |-> tagsIsArray, tags |-> tags]
Style(folderClasses) == [isObject |-> TRUE, folderClasses |-> folderClasses]
NotAnObject ==
    [isObject |-> FALSE, classes |-> Undefined, tagsIsArray |-> FALSE, tags |-> <<>>,
     folderClasses |-> Undefined]

\* value?.toString().trim()
OptionalTrim(value) == IF value = Undefined THEN Undefined ELSE trim(value)

\* !value of a text or undefined
Falsy(value) == value = Undefined \/ Len(value) = 0

\* tagsInput.map((tag) => tag?.toString().trim()).filter(Boolean), or []
NormalizedTags(category) ==
    IF ~category.tagsIsArray THEN <<>>
    ELSE LET trimmed == [i \in 1..Len(category.tags) |-> trim(category.tags[i])]
         IN  SelectAt(trimmed, {i \in 1..Len(trimmed) : Len(trimmed[i]) > 0})

\* if (classes && tags.length > 0) acc[key] = { classes, tags }
WithCategory(acc, key, isObject, classes, tags) ==
    IF isObject /\ ~Falsy(classes) /\ Len(tags) > 0
    THEN ObjectSet(acc, key, [classes |-> classes, tags |-> tags])
    ELSE acc

\* Object.entries(parsed.tagCategories ?? {}).reduce(...)
RECURSIVE ReduceTagCategories(_, _)
ReduceTagCategories(acc, entries) ==
    IF Len(entries) = 0 THEN acc
    ELSE ReduceTagCategories(
             WithCategory(acc, entries[1].key, entries[1].value.isObject,
                          OptionalTrim(entries[1].value.classes),
                          NormalizedTags(entries[1].value)),
             Tail(entries))

\* if (folderClasses) acc[normalizedKey] = { folderClasses }
WithStyle(acc, normalizedKey, isObject, folderClasses) ==
    IF isObject /\ Len(normalizedKey) > 0 /\ ~Falsy(folderClasses)
    THEN ObjectSet(acc, normalizedKey, [folderClasses |-> folderClasses])
    ELSE acc

\* Object.entries(parsed.statusStyles ?? {}).reduce(...)
RECURSIVE ReduceStatusStyles(_, _)
ReduceStatusStyles(acc, entries) ==
    IF Len(entries) = 0 THEN acc
    ELSE ReduceStatusStyles(
             WithStyle(acc, toLowerCase(trim(entries[1].key)), entries[1].value.isObject,
                       OptionalTrim(entries[1].value.folderClasses)),
             Tail(entries))

\* loadConfigFromDisk throws: no file, parse() throws, the parsed value is
\* not an object, or githubUser is missing or blank
loadConfigThrows(file) ==
    \/ ~file.exists
    \/ file.parsed.kind # "object"
    \/ Falsy(OptionalTrim(file.parsed.githubUser))

\* What loadConfigFromDisk returns when it does not throw
loadConfigFromDisk(file) ==
    [githubUser |-> OptionalTrim(file.parsed.githubUser),
     tagCategories |-> ReduceTagCategories(EmptyObject, file.parsed.tagCategories),
     statusStyles |-> ReduceStatusStyles(EmptyObject, file.parsed.statusStyles)]

\* for (const tag of tags) acc[tag.toLowerCase()] = classes
RECURSIVE SetTagColors(_, _, _)
SetTagColors(acc, classes, tags) ==
    IF Len(tags) = 0 THEN acc
    ELSE SetTagColors(ObjectSet(acc, toLowerCase(tags[1]), classes), classes, Tail(tags))

\* Object.values(tagCategories).reduce(...) from acc
RECURSIVE ReduceTagColors(_, _)
ReduceTagColors(acc, tagCategories) ==
    IF Len(tagCategories) = 0 THEN acc
    ELSE ReduceTagColors(
             SetTagColors(acc, tagCategories[1].value.classes, tagCategories[1].value.tags),
             Tail(tagCategories))

buildTagColorMap(tagCategories) == ReduceTagColors(EmptyObject, tagCategories)

\* the overrides of buildStatusFolderClassMap from acc
RECURSIVE ReduceOverrides(_, _)
ReduceOverrides(acc, statusStyles) ==
    IF Len(statusStyles) = 0 THEN acc
    ELSE ReduceOverrides(
             IF Falsy(statusStyles[1].value.folderClasses) THEN acc
             ELSE ObjectSet(acc, statusStyles[1].key, statusStyles[1].value.folderClasses),
             Tail(statusStyles))

buildStatusFolderClassMap(statusStyles) ==
    ObjectSpread(defaultStatusFolderClasses, ReduceOverrides(EmptyObject, statusStyles))

\* The settings file: whether it exists and what parse() makes of its text
ConfigFile(exists, parsed) == [exists |-> exists, parsed |-> parsed]

\* "octo"
USER_Octo == <<"o", "c", "t", "o">>
\* "envuser"
USER_Env == <<"e", "n", "v", "u", "s", "e", "r">>
\* "broken"
KEY_Broken == <<"b", "r", "o", "k", "e", "n">>

FILE_Missing == ConfigFile(FALSE, ParsedYaml("undefined", Undefined, EmptyObject, EmptyObject))
FILE_Empty == ConfigFile(TRUE, ParsedYaml("undefined", Undefined, EmptyObject, EmptyObject))
FILE_Scalar == ConfigFile(TRUE, ParsedYaml("scalar", Undefined, EmptyObject, EmptyObject))
FILE_Invalid == ConfigFile(TRUE, ParsedYaml("invalid", Undefined, EmptyObject, EmptyObject))

\* githubUser: " riley "; two categories that both colour "go", one without
\* classes, one that is not an object; a style for " Completed ", one that is
\* not an object
CONFIG_Full ==
    ConfigFile(TRUE, ParsedYaml("object", USER_Riley,
        <<[key |-> KEY_Languages,
           value |-> Category(CLASS_Blue, TRUE, <<TAG_GoPadded, TAG_rust, EmptyString>>)],
          [key |-> KEY_Tools, value |-> Category(CLASS_Pink, TRUE, <<(<<"G", "O">>)>>)],
          [key |-> KEY_Archived, value |-> Category(Undefined, TRUE, <<TAG_rust>>)],
          [key |-> KEY_Broken, value |-> NotAnObject]>>,
        <<[key |-> KEY_CompletedPadded, value |-> Style(CLASS_Pink)],
          [key |-> KEY_Archived, value |-> Style(Undefined)],
          [key |-> KEY_Broken, value |-> NotAnObject]>>))

\* githubUser: "octo", nothing else
CONFIG_Other == ConfigFile(TRUE, ParsedYaml("object", USER_Octo, EmptyObject, EmptyObject))

\* no githubUser; tags that are not an array
CONFIG_NoUser ==
    ConfigFile(TRUE, ParsedYaml("object", Undefined,
        <<[key |-> KEY_Tools, value |-> Category(CLASS_Pink, FALSE, <<>>)]>>, EmptyObject))

\* githubUser: "  "
CONFIG_BlankUser ==
    ConfigFile(TRUE, ParsedYaml("object", USER_Blank, EmptyObject, EmptyObject))

ConfigFiles ==
    {FILE_Missing, FILE_Empty, FILE_Scalar, FILE_Invalid, CONFIG_Full, CONFIG_Other,
     CONFIG_NoUser, CONFIG_BlankUser}

\* No call of the module's functions yet
NoConfigCall == [fn |-> "none", threw |-> FALSE, value |-> <<>>]

\* The module as loaded by a process: isProduction is fixed, the caches are
\* null; loads counts the calls of loadConfigFromDisk, calls those of the
\* exported functions, last is the latest of them with what it returned
\* (value is the one-element sequence of the returned value)
ConfigStart(file, isProduction, env) ==
    [file |-> file, isProduction |-> isProduction, env |-> env,
     cachedConfig |-> <<>>, cachedTagColorMap |-> <<>>, cachedStatusFolderClasses |-> <<>>,
     loads |-> 0, calls |-> 0, last |-> NoConfigCall]

\* A call's outcome: the module's state after it, whether it threw, its value
Returned(c, value) == [c |-> c, threw |-> FALSE, value |-> value]
Threw(c) == [c |-> c, threw |-> TRUE, value |-> Undefined]

\* A call of loadConfigFromDisk()
LoadCall(c) ==
    IF loadConfigThrows(c.file) THEN Threw([c EXCEPT !.loads = c.loads + 1])
    ELSE Returned([c EXCEPT !.loads = c.loads + 1], loadConfigFromDisk(c.file))

\* cachedConfig = <what loadConfigFromDisk() returned>; nothing when it threw
CacheConfig(r) ==
    IF r.threw THEN r ELSE Returned([r.c EXCEPT !.cachedConfig = <<r.value>>], r.value)

\* getConfig without its cache: every call reads the file
getConfigReload(c) == LoadCall(c)

getConfig(c) ==
    IF ~c.isProduction THEN LoadCall(c)
    ELSE IF Len(c.cachedConfig) = 0 THEN CacheConfig(LoadCall(c))
    ELSE Returned(c, c.cachedConfig[1])

\* buildTagColorMap(<what getConfig() returned>.tagCategories)
TagColorMapOf(r) ==
    IF r.threw THEN r ELSE Returned(r.c, buildTagColorMap(r.value.tagCategories))

\* cachedTagColorMap = <the map built>; nothing when getConfig() threw
CacheTagColorMap(r) ==
    IF r.threw THEN r
    ELSE Returned([r.c EXCEPT !.cachedTagColorMap = <<r.value>>], r.value)

getTagColorMap(c) ==
    IF ~c.isProduction THEN TagColorMapOf(getConfig(c))
    ELSE IF Len(c.cachedTagColorMap) = 0 THEN CacheTagColorMap(TagColorMapOf(getConfig(c)))
    ELSE Returned(c, c.cachedTagColorMap[1])

\* buildStatusFolderClassMap(<what getConfig() returned>.statusStyles)
StatusFolderClassMapOf(r) ==
    IF r.threw THEN r ELSE Returned(r.c, buildStatusFolderClassMap(r.value.statusStyles))

\* cachedStatusFolderClasses = <the map built>; nothing when getConfig() threw
CacheStatusFolderClasses(r) ==
    IF r.threw THEN r
    ELSE Returned([r.c EXCEPT !.cachedStatusFolderClasses = <<r.value>>], r.value)

getStatusFolderClasses(c) ==
    IF ~c.isProduction THEN StatusFolderClassMapOf(getConfig(c))
    ELSE IF Len(c.cachedStatusFolderClasses) = 0
    THEN CacheStatusFolderClasses(StatusFolderClassMapOf(getConfig(c)))
    ELSE Returned(c, c.cachedStatusFolderClasses[1])

\* <what getConfig() returned>.githubUser
GithubUserOf(r) == IF r.threw THEN r ELSE Returned(r.c, r.value.githubUser)

getGithubUser(c) ==
    IF ~Falsy(OptionalTrim(c.env)) THEN Returned(c, OptionalTrim(c.env))
    ELSE GithubUserOf(getConfig(c))

\* The module's state after a call of an exported function with outcome r
AfterConfigCall(fn, r) ==
    [r.c EXCEPT !.calls = r.c.calls + 1,
                !.last = [fn |-> fn, threw |-> r.threw,
                          value |-> IF r.threw THEN <<>> ELSE <<r.value>>]]

(***************************************************************************)
(* Home (src/app/page.tsx)                                                 *)
(***************************************************************************)
\* const { description, redirectUrl } = <the string extractDescriptionFromProject
\* returned>: a string has its length, its indices and String.prototype, and
\* any other property of it is undefined
StringProperty(str, key) == IF key = "length" THEN <<Len(str)>> ELSE Undefined

\* return { ...project, description, redirectUrl }
ProjectWithMeta(project, extracted) ==
    [name |-> project.name, path |-> project.path, type |-> project.type,
     tags |-> project.tags, status |-> project.status,
     description |-> StringProperty(extracted, "description"),
     redirectUrl |-> StringProperty(extracted, "redirectUrl")]

\* const tagColorByValue = <r, the outcome of getTagColorMap()>, and the
\* return of the page with its projects; Home rejects when the call threw
HomeReturn(h, r, projectsWithMeta) ==
    [config |-> AfterConfigCall("getTagColorMap", r),
     home |-> IF r.threw
              THEN [h EXCEPT !.pc = "done", !.settled = "rejected"]
              ELSE [h EXCEPT !.pc = "done", !.settled = "fulfilled",
                             !.projectsWithMeta = projectsWithMeta,
                             !.tagColorByValue = <<r.value>>]]

HomeFinish(h, c, projectsWithMeta) == HomeReturn(h, getTagColorMap(c), projectsWithMeta)

\* Home() is called: const baseProjects = await getProjects()
HomeRender ==
    /\ home.pc = "start"
    /\ home' = [home EXCEPT !.pc = "projects"]
    /\ gp' = Issue([gp EXCEPT !.pc = "root"], ContentsRequest("root", EmptyString))
    /\ UNCHANGED <<config, remote, tasks, gallery>>

\* getProjects has settled: Promise.all(baseProjects.map(... extractDescriptionFromProject(project.path) ...))
HomeProjects ==
    /\ home.pc = "projects"
    /\ gp.pc = "done"
    /\ IF gp.settled = "rejected"
       THEN /\ home' = [home EXCEPT !.pc = "done", !.settled = "rejected"]
            /\ UNCHANGED <<tasks, config>>
       ELSE IF Len(gp.value) = 0
       THEN \* Promise.all of no extraction is fulfilled with []
            /\ home' = HomeFinish([home EXCEPT !.baseProjects = gp.value], config, <<>>).home
            /\ config' = HomeFinish(home, config, <<>>).config
            /\ UNCHANGED tasks
       ELSE /\ home' = [home EXCEPT !.pc = "meta", !.baseProjects = gp.value,
                                    !.awaiting = SpawnedIds(tasks, Len(gp.value))]
            /\ tasks' = SpawnAll("extractDescriptionFromProject",
                                 [k \in 1..Len(gp.value) |-> gp.value[k].path], tasks)
            /\ UNCHANGED config
    /\ UNCHANGED <<remote, gp, gallery>>

\* Promise.all of the extractions settles: the page has its projectsWithMeta
HomeMeta ==
    /\ home.pc = "meta"
    /\ LET ids == home.awaiting
       IN  IF \E k \in 1..Len(ids) : tasks[ids[k]].settled = "rejected"
           THEN /\ home' = [home EXCEPT !.pc = "done", !.settled = "rejected"]
                /\ UNCHANGED config
           ELSE /\ PromiseAllFulfilled(tasks, ids)
                /\ home' = HomeFinish(home, config,
                               [k \in 1..Len(ids) |->
                                   ProjectWithMeta(home.baseProjects[k],
                                                   tasks[ids[k]].value)]).home
                /\ config' = HomeFinish(home, config, <<>>).config
    /\ tasks' = ConsumeAll(tasks, home.awaiting)
    /\ UNCHANGED <<remote, gp, gallery>>

(***************************************************************************)
(* ProjectsGallery (components/projects-gallery.tsx): the filter state     *)
(***************************************************************************)
\* "all"
FILTER_All == <<"a", "l", "l">>

\* useState(""), useState("all"), useState([]), useState(false), for the
\* projects the page passes
GalleryMount(projects) ==
    [projects |-> projects, searchTerm |-> EmptyString, statusFilter |-> FILTER_All,
     selectedTags |-> <<>>, isTagDropdownOpen |-> FALSE]

\* Before the page has rendered the component
GalleryIdle == GalleryMount(<<>>)

\* All tags of the projects, in the order the loops of useMemo visit them
RECURSIVE AllTags(_)
AllTags(projects) ==
    IF Len(projects) = 0 THEN <<>> ELSE projects[1].tags \o AllTags(Tail(projects))

\* The values of the tag buttons: the keys of labelMap, tag.trim().toLowerCase()
\* of every project tag that is not blank.  Every key is the value of one
\* button: of its category's group, or of the group "Other".
tagFilterValues(projects) ==
    {trim(toLowerCase(AllTags(projects)[i])) : i \in 1..Len(AllTags(projects))}
        \ {EmptyString}

\* statusOptions: the values, label.toLowerCase() of each project's status
statusOptions(projects) == {toLowerCase(projects[i].status) : i \in 1..Len(projects)}

\* matchesTags with some() in the place of every()
matchesTagsAny(project, selectedTags) ==
    LET normalizedTags == [i \in 1..Len(project.tags) |-> toLowerCase(project.tags[i])]
    IN  \/ Len(selectedTags) = 0
        \/ \E k \in 1..Len(selectedTags) : includes(normalizedTags, selectedTags[k])

\* selectedTags.length === 0 || selectedTags.every((tag) => normalizedTags.includes(tag))
matchesTags(project, selectedTags) ==
    LET normalizedTags == [i \in 1..Len(project.tags) |-> toLowerCase(project.tags[i])]
    IN  \/ Len(selectedTags) = 0
        \/ \A k \in 1..Len(selectedTags) : includes(normalizedTags, selectedTags[k])

\* project.name.toLowerCase().includes(term)
matchesName(project, searchTerm) ==
    includesString(toLowerCase(project.name), toLowerCase(trim(searchTerm)))

\* statusFilter === "all" || projectStatus === statusFilter
matchesStatus(project, statusFilter) ==
    statusFilter = FILTER_All \/ toLowerCase(project.status) = statusFilter

\* const filteredProjects = useMemo(...): the positions of the visible projects
filteredIndexes(g) ==
    {i \in 1..Len(g.projects) :
        /\ matchesName(g.projects[i], g.searchTerm)
        /\ matchesStatus(g.projects[i], g.statusFilter)
        /\ matchesTags(g.projects[i], g.selectedTags)}

filteredProjects(g) == SelectAt(g.projects, filteredIndexes(g))

\* searchTerm.trim().length > 0 || statusFilter !== "all" || selectedTags.length > 0
hasActiveFilters(g) ==
    Len(trim(g.searchTerm)) > 0 \/ g.statusFilter # FILTER_All \/ Len(g.selectedTags) > 0

\* toggleTag that always appends
toggledAppend(current, tagValue) == Append(current, tagValue)

\* current.includes(tagValue) ? current.filter((value) => value !== tagValue)
\*                            : [...current, tagValue]
toggled(current, tagValue) ==
    IF includes(current, tagValue)
    THEN SelectAt(current, {i \in 1..Len(current) : current[i] # tagValue})
    ELSE Append(current, tagValue)

\* Texts typed into the search box
SearchTerms == {EmptyString, <<"d", "e">>, <<" ", "D", "E", "M", "O", " ">>, <<"z">>}

\* onChange of the search input: setSearchTerm(event.target.value)
SetSearchTerm ==
    /\ \E text \in SearchTerms : gallery' = [gallery EXCEPT !.searchTerm = text]
    /\ UNCHANGED <<config, remote, tasks, gp, home>>

\* onChange of the status select: setStatusFilter(event.target.value)
SetStatusFilter ==
    /\ \E v \in {FILTER_All} \cup statusOptions(gallery.projects) :
          gallery' = [gallery EXCEPT !.statusFilter = v]
    /\ UNCHANGED <<config, remote, tasks, gp, home>>

\* onClick of the button of tag value v in the open dropdown: toggleTag(tag.value)
ToggleTagOf(v) ==
    /\ gallery.isTagDropdownOpen
    /\ gallery' = [gallery EXCEPT !.selectedTags = toggled(gallery.selectedTags, v)]
    /\ UNCHANGED <<config, remote, tasks, gp, home>>

ToggleTag == \E v \in tagFilterValues(gallery.projects) : ToggleTagOf(v)

\* onClick of the x of the badge of selected tag k: toggleTag(tag.value)
RemoveTagBadgeOf(k) ==
    /\ gallery' = [gallery EXCEPT
                       !.selectedTags = toggled(gallery.selectedTags, gallery.selectedTags[k])]
    /\ UNCHANGED <<config, remote, tasks, gp, home>>

RemoveTagBadge == \E k \in 1..Len(gallery.selectedTags) : RemoveTagBadgeOf(k)

\* onClick of "Clear" in the open dropdown: setSelectedTags([])
ClearTags ==
    /\ gallery.isTagDropdownOpen
    /\ Len(gallery.selectedTags) > 0
    /\ gallery' = [gallery EXCEPT !.selectedTags = <<>>]
    /\ UNCHANGED <<config, remote, tasks, gp, home>>

\* onClick of "Clear filters": resetFilters()
resetFilters ==
    /\ hasActiveFilters(gallery)
    /\ gallery' = [gallery EXCEPT !.searchTerm = EmptyString, !.statusFilter = FILTER_All,
                                  !.selectedTags = <<>>]
    /\ UNCHANGED <<config, remote, tasks, gp, home>>

\* onClick of the dropdown's button: setIsTagDropdownOpen((prev) => !prev).
\* The dropdown is rendered when there is a tag group.
ToggleTagDropdown ==
    /\ tagFilterValues(gallery.projects) # {}
    /\ gallery' = [gallery EXCEPT !.isTagDropdownOpen = ~gallery.isTagDropdownOpen]
    /\ UNCHANGED <<config, remote, tasks, gp, home>>

\* handleClickOutside without its contains() test
handleClickAnywhere(isOpen, inside) == FALSE

\* handleEscape: if (event.key === "Escape") setIsTagDropdownOpen(false)
handleEscape(isOpen, key) == IF key = "Escape" THEN FALSE ELSE isOpen

\* handleClickOutside: if (!tagDropdownRef.current.contains(event.target))
\* setIsTagDropdownOpen(false)
handleClickOutside(isOpen, inside) == IF ~inside THEN FALSE ELSE isOpen

\* A keydown of key on the document: the effect has added handleEscape as a
\* listener only while the dropdown is open
KeyDownOf(key) ==
    /\ gallery' = [gallery EXCEPT !.isTagDropdownOpen =
                       IF gallery.isTagDropdownOpen THEN handleEscape(@, key) ELSE @]
    /\ UNCHANGED <<config, remote, tasks, gp, home>>

KeyDown == \E key \in {"Escape", "Enter"} : KeyDownOf(key)

\* A mousedown on the document, inside the dropdown's element or not: the
\* effect has added handleClickOutside as a listener only while the dropdown
\* is open
MouseDownAt(inside) ==
    /\ gallery' = [gallery EXCEPT !.isTagDropdownOpen =
                       IF gallery.isTagDropdownOpen THEN handleClickOutside(@, inside) ELSE @]
    /\ UNCHANGED <<config, remote, tasks, gp, home>>

MouseDown == \E inside \in BOOLEAN : MouseDownAt(inside)

(***************************************************************************)
(* A render of the gallery page                                            *)
(***************************************************************************)
\* The settings files a render starts with
RenderConfigFiles == {CONFIG_Full, CONFIG_NoUser}

\* The module of a process that serves no page
ConfigIdle == ConfigStart(CONFIG_Full, TRUE, Undefined)

GpIdle ==
    [pc |-> "idle", trace |-> <<>>, directories |-> <<>>, statusRoots |-> <<>>, i |-> 0,
     subDirs |-> <<>>, j |-> 0, projectsWithTags |-> <<>>, fallback |-> <<>>,
     awaiting |-> <<>>, caught |-> FALSE, settled |-> "pending", value |-> Undefined]

HomeIdle ==
    [pc |-> "idle", baseProjects |-> <<>>, awaiting |-> <<>>, projectsWithMeta |-> <<>>,
     tagColorByValue |-> <<>>, settled |-> "pending"]

Init ==
    /\ remote \in RemoteRoots
    /\ tasks = <<>>
    /\ gp = GpIdle
    /\ home = [HomeIdle EXCEPT !.pc = "start"]
    /\ gallery = GalleryIdle
    /\ \E file \in RenderConfigFiles, isProduction \in BOOLEAN :
          config = ConfigStart(file, isProduction, Undefined)

Next ==
    \/ HomeRender
    \/ GetProjectsRoot
    \/ GetProjectsStatus
    \/ GetProjectsTags
    \/ GetProjectsAll
    \/ HomeProjects
    \/ HomeMeta
    \/ TaskRespond

Spec == Init /\ [][Next]_vars

(***************************************************************************)
(* One call of a function of github.ts that takes a project's name or path *)
(***************************************************************************)
\* "Missing"
N_Missing == <<"M", "i", "s", "s", "i", "n", "g">>
\* "Nope"
N_Nope == <<"N", "o", "p", "e">>

\* The names and paths the functions are called with
ProjectNames ==
    {N_Demo, N_Wip, N_Notes, N_Old, N_Missing, EmptyString,
     SlashJoin(STATUS_Completed, N_Demo), SlashJoin(N_Nope, N_Demo)}

CallResolveProjectPath ==
    /\ tasks = <<>>
    /\ \E nameOrPath \in ProjectNames :
          tasks' = SpawnAll("resolveProjectPath", <<nameOrPath>>, tasks)
    /\ UNCHANGED <<config, remote, gp, home, gallery>>

CallGetProjectFiles ==
    /\ tasks = <<>>
    /\ \E projectName \in ProjectNames :
          tasks' = SpawnAll("getProjectFiles", <<projectName>>, tasks)
    /\ UNCHANGED <<config, remote, gp, home, gallery>>

CallExtractTagsFromProject ==
    /\ tasks = <<>>
    /\ \E projectName \in ProjectNames :
          tasks' = SpawnAll("extractTagsFromProject", <<projectName>>, tasks)
    /\ UNCHANGED <<config, remote, gp, home, gallery>>

CallExtractDescriptionFromProject ==
    /\ tasks = <<>>
    /\ \E projectName \in ProjectNames :
          tasks' = SpawnAll("extractDescriptionFromProject", <<projectName>>, tasks)
    /\ UNCHANGED <<config, remote, gp, home, gallery>>

InitCalls ==
    /\ remote \in RemoteRoots
    /\ tasks = <<>>
    /\ gp = GpIdle
    /\ home = HomeIdle
    /\ gallery = GalleryIdle
    /\ config = ConfigIdle

NextCalls ==
    \/ CallResolveProjectPath
    \/ CallGetProjectFiles
    \/ CallExtractTagsFromProject
    \/ CallExtractDescriptionFromProject
    \/ TaskRespond

SpecCalls == InitCalls /\ [][NextCalls]_vars

(***************************************************************************)
(* The gallery in the browser, with the projects the page rendered         *)
(***************************************************************************)
\* Cards as Home builds them
CARD_Demo ==
    ProjectWithMeta(StatusProject(STATUS_Completed, Dir(N_Demo), ParseTags(DOC_Example)),
                    ParseDescription(DOC_Example))
CARD_Linked ==
    ProjectWithMeta(StatusProject(STATUS_Completed, Dir(N_Linked), ParseTags(DOC_Linked)),
                    ParseDescription(DOC_Linked))
CARD_Wip ==
    ProjectWithMeta(StatusProject(STATUS_InProgress, Dir(N_Wip), <<>>), EmptyString)
\* a project whose only tag is "GO"
CARD_Notes ==
    ProjectWithMeta(RootProject(Dir(N_Notes), <<(<<"G", "O">>)>>), EmptyString)

GalleryProjectLists ==
    {<<CARD_Demo, CARD_Notes, CARD_Wip>>, <<CARD_Linked, CARD_Demo>>, <<CARD_Wip>>}

InitGallery ==
    /\ remote \in {"buckets"}
    /\ tasks = <<>>
    /\ gp = GpIdle
    /\ home = HomeIdle
    /\ \E projects \in GalleryProjectLists : gallery = GalleryMount(projects)
    /\ config = ConfigIdle

NextGallery ==
    \/ SetSearchTerm
    \/ SetStatusFilter
    \/ ToggleTag
    \/ RemoveTagBadge
    \/ ClearTags
    \/ resetFilters
    \/ ToggleTagDropdown
    \/ KeyDown
    \/ MouseDown

SpecGallery == InitGallery /\ [][NextGallery]_vars

(***************************************************************************)
(* The configuration module in one process: calls of its exported          *)
(* functions, and config.yaml changing on disk between them               *)
(***************************************************************************)
\* The calls followed in one process
MaxConfigCalls == 3

\* process.env.GITHUB_USER: not set, or "envuser"
EnvUsers == {Undefined, USER_Env}

CallGetConfig ==
    /\ config.calls < MaxConfigCalls
    /\ config' = AfterConfigCall("getConfig", getConfig(config))
    /\ UNCHANGED <<remote, tasks, gp, home, gallery>>

CallGetTagColorMap ==
    /\ config.calls < MaxConfigCalls
    /\ config' = AfterConfigCall("getTagColorMap", getTagColorMap(config))
    /\ UNCHANGED <<remote, tasks, gp, home, gallery>>

CallGetStatusFolderClasses ==
    /\ config.calls < MaxConfigCalls
    /\ config' = AfterConfigCall("getStatusFolderClasses", getStatusFolderClasses(config))
    /\ UNCHANGED <<remote, tasks, gp, home, gallery>>

CallGetGithubUser ==
    /\ config.calls < MaxConfigCalls
    /\ config' = AfterConfigCall("getGithubUser", getGithubUser(config))
    /\ UNCHANGED <<remote, tasks, gp, home, gallery>>

\* config.yaml is written, removed or created; the process is not told
WriteConfigFile ==
    /\ \E file \in ConfigFiles \ {config.file} : config' = [config EXCEPT !.file = file]
    /\ UNCHANGED <<remote, tasks, gp, home, gallery>>

InitConfig ==
    /\ remote \in {"buckets"}
    /\ tasks = <<>>
    /\ gp = GpIdle
    /\ home = HomeIdle
    /\ gallery = GalleryIdle
    /\ \E file \in ConfigFiles, isProduction \in BOOLEAN, env \in EnvUsers :
          config = ConfigStart(file, isProduction, env)

NextConfig ==
    \/ CallGetConfig
    \/ CallGetTagColorMap
    \/ CallGetStatusFolderClasses
    \/ CallGetGithubUser
    \/ WriteConfigFile

SpecConfig == InitConfig /\ [][NextConfig]_vars

(***************************************************************************)
(* Project discovery: what getProjects returns, stated from the remote     *)
(* repository and the answers its requests got                             *)
(***************************************************************************)
StatusFolderNames == {STATUS_Completed, STATUS_InProgress, STATUS_Incomplete}

\* The root listing was answered with a success status and a listing
RootOk == Len(gp.trace) >= 1 /\ gp.trace[1].outcome = "ok"

\* The root listing was answered, and not so
RootFailed == Len(gp.trace) >= 1 /\ gp.trace[1].outcome \in {"http", "network", "body"}

\* getProjects got the listing of the status folder called name
StatusListed(name) ==
    \E k \in 2..Len(gp.trace) :
        /\ gp.trace[k].base = API_CONTENTS
        /\ ServerPath(gp.trace[k].path) = name
        /\ gp.trace[k].outcome = "ok"

\* The folder-type root entries that are status folders / that are not
RootStatusFolders ==
    SelectAt(RootListing(remote),
             {i \in 1..Len(RootListing(remote)) :
                 /\ RootListing(remote)[i].type = "dir"
                 /\ RootListing(remote)[i].name \in StatusFolderNames})
RootOtherFolders ==
    SelectAt(RootListing(remote),
             {i \in 1..Len(RootListing(remote)) :
                 /\ RootListing(remote)[i].type = "dir"
                 /\ RootListing(remote)[i].name \notin StatusFolderNames})

\* name, path and status of the descriptors of a result
Described(v) ==
    [k \in 1..Len(v) |-> [name |-> v[k].name, path |-> v[k].path, status |-> v[k].status]]

\* One descriptor per folder-type child of the status folder called name
ChildDescriptors(name) ==
    LET kids == SelectAt(RemoteFolders[name],
                         {i \in 1..Len(RemoteFolders[name]) :
                             RemoteFolders[name][i].type = "dir"})
    IN  [k \in 1..Len(kids) |->
            [name |-> kids[k].name, path |-> name \o <<"/">> \o kids[k].name,
             status |-> name]]

\* The descriptors of the children of the status folders from the i-th on
\* whose listing getProjects got
RECURSIVE ListedChildren(_)
ListedChildren(i) ==
    IF i > Len(RootStatusFolders) THEN <<>>
    ELSE (IF StatusListed(RootStatusFolders[i].name)
          THEN ChildDescriptors(RootStatusFolders[i].name) ELSE <<>>)
         \o ListedChildren(i + 1)

\* One Uncategorized descriptor per folder of dirs
UngroupedDescriptors(dirs) ==
    [k \in 1..Len(dirs) |->
        [name |-> dirs[k].name, path |-> dirs[k].name, status |-> UNCATEGORIZED]]

C2_NoStatusFolders ==
    (gp.pc = "done" /\ RootOk /\ Len(RootStatusFolders) = 0)
        => /\ gp.settled = "fulfilled"
           /\ Described(gp.value) = UngroupedDescriptors(RootOtherFolders)

C2_Witness ==
    /\ gp.pc = "done" /\ remote = "legacy" /\ RootOk
    /\ gp.settled = "fulfilled"
    /\ Len(gp.value) = 2
    /\ Len(RootListing(remote)) = 3

C4_RootFailureEmpty ==
    RootFailed
        => /\ gp.pc = "done" /\ gp.settled = "fulfilled"
           /\ gp.value = <<>>
           /\ Len(gp.trace) = 1
           /\ tasks = <<>>

C4_Witness ==
    /\ RootFailed
    /\ gp.trace[1].outcome = "body"
    /\ home.pc = "done"

(***************************************************************************)
(* Path resolution and extraction: what one call does, stated from its     *)
(* requests and their answers                                              *)
(***************************************************************************)
\* The text has a path separator
HasSeparator(text) == \E i \in 1..Len(text) : text[i] = "/"

\* The probes of a call, in the order it issued them
Probes(t) == SelectAt(t.trace, {k \in 1..Len(t.trace) : t.trace[k].op = "probe"})

\* The paths to probe for a bare name, in the order of the contract
Candidates(name) ==
    <<name,
      <<"C", "o", "m", "p", "l", "e", "t", "e", "d", "/">> \o name,
      <<"I", "n", " ", "P", "r", "o", "g", "r", "e", "s", "s", "/">> \o name,
      <<"I", "n", "c", "o", "m", "p", "l", "e", "t", "e", "/">> \o name>>

\* The path a probe's URL names after ".../contents/", percent-decoded
RequestedPath(req) == decodeURIComponent(Tail(req.path))

\* The probe was answered with a success status / with a non-success status
ProbeSucceeded(req) == req.outcome \in {"ok", "body"}
ProbeFailed(req) == req.outcome = "http"

C6_SlashTrusted ==
    \A id \in 1..Len(tasks) :
        LET t == tasks[id]
        IN  HasSeparator(t.projectName) =>
              /\ Probes(t) = <<>>
              /\ t.resolved = "returned"
              /\ t.projectPath = t.projectName
              /\ t.fn = "resolveProjectPath" =>
                    /\ t.settled = "fulfilled"
                    /\ t.value = t.projectName
                    /\ t.trace = <<>>

C6_Witness ==
    \E id \in 1..Len(tasks) :
        /\ tasks[id].fn = "resolveProjectPath"
        /\ tasks[id].projectName = SlashJoin(N_Nope, N_Demo)
        /\ ~FolderExists(remote, tasks[id].projectName)
        /\ tasks[id].settled = "fulfilled"
        /\ tasks[id].value = SlashJoin(N_Nope, N_Demo)
        /\ tasks[id].trace = <<>>

\* The lines of the raw file a request names
LinesOf(req) == split(RawFiles[req.base], "\n")

\* C9: extractTagsFromProject and extractDescriptionFromProject never reject:
\* an unresolvable path, a probe that throws, a failed or throwing listing or
\* raw-file fetch, a folder without a Markdown file with a download location,
\* a file with fewer than 5 (3) lines and a line that does not match each
\* give the empty default
C9_NeverRejects ==
    \A id \in 1..Len(tasks) :
        LET t == tasks[id]
            n == Len(t.trace)
            empty == t.settled = "fulfilled" /\ Len(t.value) = 0
        IN  t.fn \in {"extractTagsFromProject", "extractDescriptionFromProject"} =>
              /\ t.settled # "rejected"
              /\ (t.resolved = "returned" /\ t.projectPath = Null) => empty
              /\ t.resolved = "rejected" => empty
              /\ (n > 0 /\ t.trace[n].op = "list" /\ t.trace[n].outcome # "pending") => empty
              /\ (n > 0 /\ t.trace[n].op = "raw"
                    /\ t.trace[n].outcome \in {"http", "network", "body"}) => empty
              /\ (n > 0 /\ t.trace[n].op = "raw" /\ t.trace[n].outcome = "ok"
                    /\ Len(LinesOf(t.trace[n])) <
                         (IF t.fn = "extractTagsFromProject" THEN 5 ELSE 3)) => empty
              /\ (n > 0 /\ t.trace[n].op = "raw" /\ t.trace[n].outcome = "ok"
                    /\ RawFiles[t.trace[n].base] = DOC_NoLabels) => empty

\* The raw-file fetch of a tag extraction throws
C9_Witness ==
    \E id \in 1..Len(tasks) :
        /\ tasks[id].fn = "extractTagsFromProject"
        /\ Len(tasks[id].trace) > 0
        /\ tasks[id].trace[Len(tasks[id].trace)].op = "raw"
        /\ tasks[id].trace[Len(tasks[id].trace)].outcome = "network"
        /\ tasks[id].settled = "fulfilled"
        /\ tasks[id].value = <<>>

(***************************************************************************)
(* The metadata the gallery page obtains                                   *)
(***************************************************************************)
\* "A test app"
TEXT_ATestApp == <<"A", " ", "t", "e", "s", "t", " ", "a", "p", "p">>
\* "Go"
TAG_Go == <<"G", "o">>
\* "Rust"
TAG_Rust == <<"R", "u", "s", "t">>
\* "https://example.com"
TEXT_ExampleUrl == <<"h", "t", "t", "p", "s", ":", "/", "/", "e", "x", "a", "m", "p", "l", "e",
    ".", "c", "o", "m">>

\* The call fn(path) of this render read the project's Markdown file
ExtractionRead(fn, path) ==
    \E id \in 1..Len(tasks) :
        /\ tasks[id].fn = fn
        /\ tasks[id].projectName = path
        /\ tasks[id].exit = "return"

\* The page has the metadata of the project at path, both extractions having
\* read its Markdown file
PageRead(k, path) ==
    /\ home.pc = "done" /\ home.settled = "fulfilled"
    /\ k \in 1..Len(home.projectsWithMeta)
    /\ home.projectsWithMeta[k].path = path
    /\ ExtractionRead("extractTagsFromProject", path)
    /\ ExtractionRead("extractDescriptionFromProject", path)

\* C7: for the project whose Markdown file is "# Demo", "", "**Project
\* Description:** A test app", "", "**Languages & Technologies:** Go, Rust"
\* the page obtains description "A test app", tags ["Go", "Rust"] and
\* redirectUrl null
C7_PageMetadata ==
    \A k \in 1..Len(home.projectsWithMeta) :
        PageRead(k, SlashJoin(STATUS_Completed, N_Demo)) =>
            /\ home.projectsWithMeta[k].description = TEXT_ATestApp
            /\ home.projectsWithMeta[k].tags = <<TAG_Go, TAG_Rust>>
            /\ home.projectsWithMeta[k].redirectUrl = Null

\* C8: for the project whose Markdown file has "[Demo](https://example.com)"
\* as line 1 the page obtains redirectUrl "https://example.com"
C8_RedirectUrl ==
    \A k \in 1..Len(home.projectsWithMeta) :
        PageRead(k, SlashJoin(STATUS_Completed, N_Linked)) =>
            home.projectsWithMeta[k].redirectUrl = TEXT_ExampleUrl

(***************************************************************************)
(* The gallery's filter                                                    *)
(***************************************************************************)
\* The project has the tag, compared without regard to case
HasTag(project, tag) ==
    \E j \in 1..Len(project.tags) : toLowerCase(project.tags[j]) = toLowerCase(tag)

\* C10: a project is visible exactly when its name and status match and every
\* selected tag is among its tags, compared case-insensitively: with two tags
\* selected a project that has only one is excluded, and with no tag selected
\* the tags exclude nothing
C10_TagsAnd ==
    \A i \in 1..Len(gallery.projects) :
        (i \in filteredIndexes(gallery))
            <=> /\ matchesName(gallery.projects[i], gallery.searchTerm)
                /\ matchesStatus(gallery.projects[i], gallery.statusFilter)
                /\ \A k \in 1..Len(gallery.selectedTags) :
                      HasTag(gallery.projects[i], gallery.selectedTags[k])

\* "go" and "rust" selected: Demo (Go, Rust) is visible, Notes (GO) is not
C10_Witness ==
    /\ gallery.projects = <<CARD_Demo, CARD_Notes, CARD_Wip>>
    /\ gallery.selectedTags = <<(<<"g", "o">>), (<<"r", "u", "s", "t">>)>>
    /\ gallery.searchTerm = EmptyString
    /\ gallery.statusFilter = FILTER_All
    /\ filteredProjects(gallery) = <<CARD_Demo>>
    /\ HasTag(CARD_Notes, <<"g", "o">>)

(***************************************************************************)
(* The configuration and the page render                                   *)
(***************************************************************************)
\* The file has no githubUser that is non-empty once trimmed
LacksGithubUser(file) ==
    /\ file.exists
    /\ file.parsed.kind = "object"
    /\ Falsy(OptionalTrim(file.parsed.githubUser))

\* The render's call of the configuration module raised its error
ConfigErrorRaised == config.last.fn # "none" /\ config.last.threw

\* C11: in a page render whose configuration lacks a non-empty githubUser, no
\* request to the remote API has been answered, let alone issued, when the
\* configuration error is raised
C11_ConfigBeforeRemote ==
    (LacksGithubUser(config.file) /\ ConfigErrorRaised) => Len(gp.trace) = 0

\* Extraction k of the page's batch is the call for descriptor k
ExtractionOf(k) ==
    /\ tasks[home.awaiting[k]].fn = "extractDescriptionFromProject"
    /\ tasks[home.awaiting[k]].projectName = home.baseProjects[k].path

\* C12: the page starts one description extraction per descriptor, all of
\* them before any has to complete; the batch is over only when every
\* extraction has completed, and the page then has one entry per descriptor,
\* in descriptor order
C12_BatchExtraction ==
    /\ home.pc = "meta" =>
          /\ Len(home.awaiting) = Len(home.baseProjects)
          /\ \A k \in 1..Len(home.awaiting) : ExtractionOf(k)
    /\ (home.pc = "done" /\ Len(home.awaiting) > 0) =>
          \A k \in 1..Len(home.awaiting) :
              ExtractionOf(k) /\ tasks[home.awaiting[k]].settled # "pending"
    /\ (home.pc = "done" /\ home.settled = "fulfilled") =>
          /\ Len(home.projectsWithMeta) = Len(home.baseProjects)
          /\ \A k \in 1..Len(home.baseProjects) :
                /\ home.projectsWithMeta[k].name = home.baseProjects[k].name
                /\ home.projectsWithMeta[k].path = home.baseProjects[k].path
                /\ home.projectsWithMeta[k].status = home.baseProjects[k].status
                /\ home.projectsWithMeta[k].tags = home.baseProjects[k].tags

\* A render of three descriptors has ended with its three entries
C12_Witness ==
    /\ home.pc = "done" /\ home.settled = "fulfilled"
    /\ Len(home.baseProjects) >= 3
    /\ Len(home.projectsWithMeta) = Len(home.baseProjects)

\* No ordering dependency: a later extraction of the batch has completed
\* while an earlier one is still waiting for its answer
C12_LaterFirst ==
    /\ home.pc = "meta"
    /\ \E j, k \in 1..Len(home.awaiting) :
          /\ j < k
          /\ tasks[home.awaiting[j]].settled = "pending"
          /\ tasks[home.awaiting[k]].settled = "fulfilled"

(***************************************************************************)
(* The description of line 3                                               *)
(***************************************************************************)
\* Call t of extractDescriptionFromProject read its Markdown file
DescriptionRead(t) ==
    /\ t.fn = "extractDescriptionFromProject"
    /\ t.settled = "fulfilled"
    /\ Len(t.trace) > 0
    /\ t.trace[Len(t.trace)].op = "raw"
    /\ t.trace[Len(t.trace)].outcome = "ok"

\* What the description pattern captures on line 3 of the file the call read
Line3Match(t) == match(LinesOf(t.trace[Len(t.trace)])[3], DESCRIPTION_RE)

\* C13: when line 3 of the Markdown file matches the description pattern, the
\* extracted description is the captured remainder of the line without its
\* leading and trailing whitespace
C13_DescriptionTrimmed ==
    \A id \in 1..Len(tasks) :
        (/\ DescriptionRead(tasks[id])
         /\ Len(LinesOf(tasks[id].trace[Len(tasks[id].trace)])) >= 3
         /\ Line3Match(tasks[id]).found) =>
            tasks[id].value = trim(Line3Match(tasks[id]).group)

(***************************************************************************)
(* The tag dropdown                                                        *)
(***************************************************************************)
\* A step that selects, removes or clears tags, or changes another filter
TagSelectionStep ==
    ToggleTag \/ RemoveTagBadge \/ ClearTags \/ resetFilters \/ SetSearchTerm \/ SetStatusFilter

\* C14: the dropdown starts closed; its button flips it; while it is open
\* Escape or a mouse-down outside closes it and a mouse-down inside leaves it
\* open; while it is closed Escape and mouse-downs leave it closed (another
\* key changes nothing either); selecting or clearing tags never opens or
\* closes it
C14_Dropdown ==
    /\ ~gallery.isTagDropdownOpen
    /\ [][/\ ToggleTagDropdown =>
                gallery'.isTagDropdownOpen = ~gallery.isTagDropdownOpen
          /\ (gallery.isTagDropdownOpen /\ (KeyDownOf("Escape") \/ MouseDownAt(FALSE))) =>
                ~gallery'.isTagDropdownOpen
          /\ (gallery.isTagDropdownOpen /\ (MouseDownAt(TRUE) \/ KeyDownOf("Enter"))) =>
                gallery'.isTagDropdownOpen
          /\ (~gallery.isTagDropdownOpen /\ (KeyDown \/ MouseDown)) =>
                ~gallery'.isTagDropdownOpen
          /\ TagSelectionStep =>
                gallery'.isTagDropdownOpen = gallery.isTagDropdownOpen]_vars

\* The dropdown is open and a tag has been selected in it
C14_Witness == gallery.isTagDropdownOpen /\ Len(gallery.selectedTags) > 0

(***************************************************************************)
(* The selected tags                                                       *)
(***************************************************************************)
\* The values of a list, as a set
Values(list) == {list[i] : i \in 1..Len(list)}

\* No value occurs twice in the list
NoDuplicate(list) == \A i, j \in 1..Len(list) : list[i] = list[j] => i = j

\* The list without the value v, the order of the others kept
Without(list, v) == SelectAt(list, {i \in 1..Len(list) : list[i] # v})

\* C16: from the empty selection, toggling tags, clearing them and resetting
\* the filters never leave a tag selected twice; toggleTag(t) adds t exactly
\* when it is absent and removes it exactly when it is present, leaves the
\* other selected tags, the search term and the status filter as they are,
\* and applied twice gives back the same set of selected tags
C16_SelectedTags ==
    /\ []NoDuplicate(gallery.selectedTags)
    /\ [][\A t \in tagFilterValues(gallery.projects) :
             (\/ ToggleTagOf(t)
              \/ \E k \in 1..Len(gallery.selectedTags) :
                    gallery.selectedTags[k] = t /\ RemoveTagBadgeOf(k)) =>
                /\ t \notin Values(gallery.selectedTags) =>
                      gallery'.selectedTags = Append(gallery.selectedTags, t)
                /\ t \in Values(gallery.selectedTags) =>
                      /\ t \notin Values(gallery'.selectedTags)
                      /\ gallery'.selectedTags = Without(gallery.selectedTags, t)
                /\ Without(gallery'.selectedTags, t) = Without(gallery.selectedTags, t)
                /\ gallery'.searchTerm = gallery.searchTerm
                /\ gallery'.statusFilter = gallery.statusFilter
                /\ Values(toggled(gallery'.selectedTags, t)) = Values(gallery.selectedTags)
                /\ NoDuplicate(toggled(gallery'.selectedTags, t))]_vars

\* Two tags are selected while a search term and a status filter are set
C16_Witness ==
    /\ Len(gallery.selectedTags) >= 2
    /\ Len(gallery.searchTerm) > 0
    /\ gallery.statusFilter # FILTER_All

(***************************************************************************)
(* A status folder whose listing fails                                     *)
(***************************************************************************)
\* The listing of the status folder called name was answered with a
\* non-success status
StatusFailed(name) ==
    \E k \in 2..Len(gp.trace) :
        /\ gp.trace[k].base = API_CONTENTS
        /\ ServerPath(gp.trace[k].path) = name
        /\ gp.trace[k].outcome = "http"

\* No request of getProjects threw
NoListingThrew ==
    \A k \in 1..Len(gp.trace) : gp.trace[k].outcome \notin {"network", "body"}

\* The descriptors of v whose status is name, in the order of v
WithStatus(v, name) == SelectAt(v, {k \in 1..Len(v) : v[k].status = name})

ConfigCallStep(fn) == config'.calls = config.calls + 1 /\ config'.last.fn = fn

\* The step is a change of config.yaml on disk
ConfigFileStep == config'.calls = config.calls /\ config'.file # config.file

\* The three caches
Caches(c) == <<c.cachedConfig, c.cachedTagColorMap, c.cachedStatusFolderClasses>>

\* A step that is a call of a function whose cache was before: it has
\* returned the cached value when there was one, and has cached what it
\* returned when there was none
CachedCall(before, after) ==
    /\ Len(before) > 0 =>
          /\ ~config'.last.threw
          /\ config'.last.value = before
          /\ config'.loads = config.loads
          /\ Caches(config') = Caches(config)
    /\ (Len(before) = 0 /\ ~config'.last.threw) => after = config'.last.value
    /\ (Len(before) = 0 /\ config'.last.threw) => Caches(config') = Caches(config)

\* A step that is a call in a process that is not in production: the file
\* is read, what is returned is made from the file as it is now, and nothing
\* is cached
ReloadingCall(made) ==
    /\ config'.loads = config.loads + 1
    /\ Caches(config') = <<(<<>>), <<>>, <<>>>>
    /\ config'.last.threw = loadConfigThrows(config.file)
    /\ ~config'.last.threw => config'.last.value = <<made>>

\* C15: in production the configuration snapshot, the tag-color map and the
\* status-style map are each computed at most once, after a successful load:
\* every later call returns the cached value without reading the file again,
\* even when the file has changed; a failed load caches nothing and the next
\* call reads the file again; out of production every call reads the file
C15_Caches ==
    [][/\ (config.isProduction /\ ConfigCallStep("getConfig")) =>
             CachedCall(config.cachedConfig, config'.cachedConfig)
       /\ (config.isProduction /\ ConfigCallStep("getTagColorMap")) =>
             CachedCall(config.cachedTagColorMap, config'.cachedTagColorMap)
       /\ (config.isProduction /\ ConfigCallStep("getStatusFolderClasses")) =>
             CachedCall(config.cachedStatusFolderClasses, config'.cachedStatusFolderClasses)
       /\ (config.isProduction /\ Len(config.cachedConfig) > 0) =>
             /\ config'.loads = config.loads
             /\ config'.cachedConfig = config.cachedConfig
       /\ (/\ config.isProduction
           /\ Len(config.cachedConfig) = 0
           /\ \/ ConfigCallStep("getConfig")
              \/ /\ ConfigCallStep("getTagColorMap")
                 /\ Len(config.cachedTagColorMap) = 0
              \/ /\ ConfigCallStep("getStatusFolderClasses")
                 /\ Len(config.cachedStatusFolderClasses) = 0) =>
             /\ config'.loads = config.loads + 1
             /\ config'.last.threw = loadConfigThrows(config.file)
             /\ config'.last.threw => Caches(config') = Caches(config)
             /\ ~config'.last.threw =>
                   config'.cachedConfig = <<loadConfigFromDisk(config.file)>>
       /\ (config.isProduction /\ ConfigFileStep) => Caches(config') = Caches(config)
       /\ (~config.isProduction /\ ConfigCallStep("getConfig")) =>
             ReloadingCall(loadConfigFromDisk(config.file))
       /\ (~config.isProduction /\ ConfigCallStep("getTagColorMap")) =>
             ReloadingCall(buildTagColorMap(loadConfigFromDisk(config.file).tagCategories))
       /\ (~config.isProduction /\ ConfigCallStep("getStatusFolderClasses")) =>
             ReloadingCall(
                 buildStatusFolderClassMap(loadConfigFromDisk(config.file).statusStyles))]_vars

\* In production a call of getConfig has returned the cached snapshot, read
\* once, while the file on disk now gives another one
C15_Witness ==
    /\ config.isProduction
    /\ config.calls >= 2 /\ config.loads = 1
    /\ config.last.fn = "getConfig" /\ ~config.last.threw
    /\ config.last.value = config.cachedConfig
    /\ Len(config.cachedTagColorMap) = 1
    /\ ~loadConfigThrows(config.file)
    /\ loadConfigFromDisk(config.file) # config.cachedConfig[1]

=============================================================================
